---- MODULE Spec2Model ----
(***************************************************************************)
(* Model of cmd/generate/main.go, the static site generator: the content   *)
(* walk (loadPosts), the aggregation done by run, and the pure functions    *)
(* splitFrontMatter, buildSlug, tagSlug, buildTagGroups, plainExcerpt and   *)
(* firstNonEmpty.                                                           *)
(*                                                                          *)
(* Byte strings and Go strings are sequences of one-character strings; a    *)
(* non-ASCII rune is written by its code point ("U+00E9").                  *)
(* A front-matter field ("date: 2025-11-04T01:19:00Z", "draft: true", ...)  *)
(* is one element of such a sequence: a field atom stands for a run of      *)
(* bytes that holds no line break, and is listed in FieldAtoms.             *)
(***************************************************************************)
EXTENDS Integers, Sequences, FiniteSets, TLC

VARIABLES
  pc,         \* position of the run, or of the function being applied
  files,      \* the content directory: sequence of [Path, Data] in walk order
  idx,        \* index in files of the entry WalkDir visits next
  cancelled,  \* ctx.Done() is closed
  posts,      \* loadPosts: the posts slice
  reads,      \* paths handed to os.ReadFile so far
  rendered,   \* paths whose body was handed to renderMarkdown so far
  pages,      \* output tree: set of [Target, Post], one per <out>/<slug>/index.html
  indexPage,  \* <out>/index.html: << >> when absent, <<posts>> when written
  tagPages,   \* <out>/tags/...: << >> when absent, <<tagGroups>> when written
  feed,       \* <out>/feeds/rss.xml: << >> when absent, <<items>> when written
  err,        \* the error run returns ("" for nil)
  arg,        \* argument of the function being applied
  ret         \* its result

vars == <<pc, files, idx, cancelled, posts, reads, rendered, pages, indexPage,
          tagPages, feed, err, arg, ret>>

buildVars == <<files, idx, cancelled, posts, reads, rendered, pages, indexPage,
               tagPages, feed, err>>

----------------------------------------------------------------------------
(* Characters *)

\* Byte order of the characters the model uses (UTF-8 order for the non-ASCII ones).
CharOrder ==
  <<"\n", "\r", " ", "!", "-", ".", "/", "1", "@", "A", "B", "C", "D", "G", "I",
    "M", "O", "S", "T", "X", "_", "a", "b", "c", "d", "g", "i", "m", "o", "s", "t", "x",
    "U+00C9", "U+00E9", "U+0663", "U+2026">>

Chars == {CharOrder[i] : i \in DOMAIN CharOrder}

CharRank(c) == CHOOSE i \in DOMAIN CharOrder : CharOrder[i] = c

\* <<lower, upper>> pairs of unicode.ToLower / unicode.ToUpper
CasePairs ==
  { <<"a","A">>, <<"b","B">>, <<"c","C">>, <<"d","D">>, <<"g","G">>, <<"i","I">>,
    <<"m","M">>, <<"o","O">>, <<"s","S">>, <<"t","T">>, <<"x","X">>, <<"U+00E9","U+00C9">> }

AsciiLower == {"a", "b", "c", "d", "g", "i", "m", "o", "s", "t", "x"}
AsciiDigit == {"1"}

\* unicode.IsLetter(r) || unicode.IsDigit(r)
IsLetter(c) == \E p \in CasePairs : c = p[1] \/ c = p[2]
IsDigit(c) == c \in {"1", "U+0663"}

\* unicode.IsSpace
IsSpace(c) == c \in {" ", "\n", "\r"}

ToLowerChar(c) ==
  IF \E p \in CasePairs : p[2] = c
  THEN (CHOOSE p \in CasePairs : p[2] = c)[1]
  ELSE c

ToUpperChar(c) ==
  IF \E p \in CasePairs : p[1] = c
  THEN (CHOOSE p \in CasePairs : p[1] = c)[2]
  ELSE c

----------------------------------------------------------------------------
(* strings / bytes helpers *)

Min(S) == CHOOSE x \in S : \A y \in S : x <= y
Max(S) == CHOOSE x \in S : \A y \in S : x >= y

\* strings.ToLower
ToLower(s) == [i \in 1..Len(s) |-> ToLowerChar(s[i])]

\* strings.HasPrefix / bytes.HasPrefix
HasPrefix(s, p) == Len(s) >= Len(p) /\ SubSeq(s, 1, Len(p)) = p

\* strings.HasSuffix
HasSuffix(s, p) == Len(s) >= Len(p) /\ SubSeq(s, Len(s) - Len(p) + 1, Len(s)) = p

\* bytes.Index: 0-based offset of the first occurrence of sub in s, -1 when absent
Index(s, sub) ==
  LET hits == { i \in 0..(Len(s) - Len(sub)) : SubSeq(s, i + 1, i + Len(sub)) = sub }
  IN IF hits = {} THEN -1 ELSE Min(hits)

\* s[n:]
From(s, n) == SubSeq(s, n + 1, Len(s))

\* bytes.TrimLeft(s, cutset)
TrimLeft(s, cutset) ==
  LET keep == { i \in 1..Len(s) : s[i] \notin cutset }
  IN IF keep = {} THEN << >> ELSE SubSeq(s, Min(keep), Len(s))

\* strings.TrimRight(s, cutset)
TrimRight(s, cutset) ==
  LET keep == { i \in 1..Len(s) : s[i] \notin cutset }
  IN IF keep = {} THEN << >> ELSE SubSeq(s, 1, Max(keep))

\* strings.Trim(s, cutset)
Trim(s, cutset) == TrimRight(TrimLeft(s, cutset), cutset)

\* strings.TrimSpace
TrimSpace(s) == Trim(s, {c \in Chars : IsSpace(c)})

\* strings.TrimSuffix
TrimSuffix(s, suf) == IF HasSuffix(s, suf) THEN SubSeq(s, 1, Len(s) - Len(suf)) ELSE s

RECURSIVE SplitOn(_, _)
\* the pieces of s between the characters of seps (strings.Split)
SplitOn(s, seps) ==
  LET brk == { i \in 1..Len(s) : s[i] \in seps }
  IN IF brk = {} THEN <<s>>
     ELSE <<SubSeq(s, 1, Min(brk) - 1)>> \o SplitOn(From(s, Min(brk)), seps)

RECURSIVE JoinWith(_, _)
\* strings.Join(parts, sep)
JoinWith(parts, sep) ==
  IF parts = << >> THEN << >>
  ELSE IF Len(parts) = 1 THEN parts[1]
  ELSE parts[1] \o sep \o JoinWith(Tail(parts), sep)

\* a < b for Go strings: byte-wise lexicographic order
SeqLess(a, b) ==
  \E k \in 1..(Len(a) + 1) :
    /\ k <= Len(b)
    /\ \A i \in 1..(k - 1) : a[i] = b[i]
    /\ k = Len(a) + 1 \/ CharRank(a[k]) < CharRank(b[k])

\* All sequences over S of length at most n
SeqsUpTo(S, n) == UNION { [1..k -> S] : k \in 0..n }

----------------------------------------------------------------------------
(* Front matter *)

\* the zero time.Time
ZeroDate == 0

\* A field atom stands for the bytes of one "key: value" line of YAML.
\* Tags values are lists of raw labels.
FieldAtoms ==
  { "date:1", "date:2", "draft:true", "title:T", "summary:s",
    "description:d", "tags:Go,go", "tags:b" }

AtomKey(a) ==
  CASE a \in {"date:1", "date:2"} -> "date"
    [] a = "draft:true" -> "draft"
    [] a = "title:T" -> "title"
    [] a = "summary:s" -> "summary"
    [] a = "description:d" -> "description"
    [] a \in {"tags:Go,go", "tags:b"} -> "tags"

\* the zero frontMatter
ZeroFM ==
  [Title |-> << >>, Date |-> ZeroDate, Tags |-> << >>, Summary |-> << >>,
   Description |-> << >>, Draft |-> FALSE]

\* decoding one field into the struct
SetField(fm, a) ==
  CASE a = "date:1" -> [fm EXCEPT !.Date = 1]
    [] a = "date:2" -> [fm EXCEPT !.Date = 2]
    [] a = "draft:true" -> [fm EXCEPT !.Draft = TRUE]
    [] a = "title:T" -> [fm EXCEPT !.Title = <<"T">>]
    [] a = "summary:s" -> [fm EXCEPT !.Summary = <<"s">>]
    [] a = "description:d" -> [fm EXCEPT !.Description = <<"d">>]
    [] a = "tags:Go,go" -> [fm EXCEPT !.Tags = << <<"G","o">>, <<"g","o">> >>]
    [] a = "tags:b" -> [fm EXCEPT !.Tags = << <<"b">> >>]

\* the lines of s, broken at "\n" and "\r"
SplitLines(s) == SplitOn(s, {"\n", "\r"})

RECURSIVE DecodeLines(_, _, _)
DecodeLines(lines, fm, keys) ==
  IF lines = << >> THEN [ok |-> TRUE, fm |-> fm]
  ELSE LET l == TrimRight(Head(lines), {" "})
       IN IF l = << >> THEN DecodeLines(Tail(lines), fm, keys)
          ELSE IF Len(l) = 1 /\ l[1] \in FieldAtoms /\ AtomKey(l[1]) \notin keys
               THEN DecodeLines(Tail(lines), SetField(fm, l[1]), keys \cup {AtomKey(l[1])})
               ELSE [ok |-> FALSE, fm |-> fm]

\* yaml.Unmarshal(meta, &fm): a document-start marker may open the text; every
\* other non-blank line must be one "key: value" field, and no key may repeat.
yamlUnmarshal(meta) ==
  LET lines == SplitLines(meta)
      rest == IF Head(lines) = <<"-","-","-">> THEN Tail(lines) ELSE lines
  IN DecodeLines(rest, ZeroFM, {})

\* splitFrontMatter(data): [err, fm, body]; body is << >> where Go returns nil
splitFrontMatter(data) ==
  LET start == IF HasPrefix(data, <<"-","-","-","\r","\n">>) THEN 5
               ELSE IF HasPrefix(data, <<"-","-","-","\n">>) THEN 4
               ELSE 0
  IN IF start = 0 THEN [err |-> "", fm |-> ZeroFM, body |-> data]
     ELSE
       LET remaining == From(data, start)
           end1 == Index(remaining, <<"\n","-","-","-">>)
           end == IF end1 = -1 THEN Index(remaining, <<"\r","\n","-","-","-">>) ELSE end1
           sepLen == IF end1 = -1 THEN 5 ELSE 4
       IN IF end = -1
          THEN [err |-> "unterminated front matter", fm |-> ZeroFM, body |-> << >>]
          ELSE
            LET meta == SubSeq(remaining, 1, end)
                body == TrimLeft(From(remaining, end + sepLen), {"\r", "\n"})
                dec == yamlUnmarshal(meta)
            IN IF ~dec.ok THEN [err |-> "yaml", fm |-> dec.fm, body |-> << >>]
               ELSE IF dec.fm.Date = ZeroDate
                    THEN [err |-> "date is required in front matter",
                          fm |-> dec.fm, body |-> << >>]
                    ELSE [err |-> "", fm |-> dec.fm, body |-> body]

----------------------------------------------------------------------------
(* The state of a run before it starts; the pure-function specifications    *)
(* keep the build in this state.                                            *)

IdleBuild ==
  /\ files = << >>
  /\ idx = 0
  /\ cancelled = FALSE
  /\ posts = << >>
  /\ reads = {}
  /\ rendered = {}
  /\ pages = {}
  /\ indexPage = << >>
  /\ tagPages = << >>
  /\ feed = << >>
  /\ err = ""

----------------------------------------------------------------------------
(* SpecSplit: splitFrontMatter applied to one input *)

Cat4(a, b, c, d) == a \o b \o c \o d

SplitOpen ==
  { << >>, <<"-","-","-","\n">>, <<"-","-","-","\r","\n">>, <<"-","-","-">>,
    <<"-","-","-","-","\n">>, <<"x","\n">> }

SplitMeta ==
  { << >>, <<"date:1">>, <<"date:1","\r">>, <<"x">>, <<"date:1","\n","draft:true">>,
    <<"date:1","\n","date:2">>, <<"-","-","-","\n","date:2">> }

SplitClose ==
  { << >>, <<"\n","-","-","-">>, <<"\r","\n","-","-","-">>, <<"\n","-","-">>,
    <<"\n","-","-","-","-">>, <<"-","-","-">> }

SplitTail ==
  { << >>, <<"\n">>, <<"\r","\n">>, <<"\n","x">>, <<"x">>, <<"\n","\n","x","\n">>,
    <<"x","\n","-","-","-","\n","x">>, <<" ","\n","x">> }

SplitInputs ==
  { Cat4(o, m, c, t) : o \in SplitOpen, m \in SplitMeta, c \in SplitClose, t \in SplitTail }

InitSplit ==
  /\ IdleBuild
  /\ pc = "split"
  /\ arg \in SplitInputs
  /\ ret = [err |-> "", fm |-> ZeroFM, body |-> << >>]

SplitCall ==
  /\ pc = "split"
  /\ ret' = splitFrontMatter(arg)
  /\ pc' = "splitDone"
  /\ UNCHANGED <<arg, buildVars>>

NextSplit == SplitCall

SpecSplit == InitSplit /\ [][NextSplit]_vars

\* The opening delimiter line: three dashes and a line ending (LF or CRLF)
OpeningLen(d) ==
  IF HasPrefix(d, <<"-","-","-","\r","\n">>) THEN 5
  ELSE IF HasPrefix(d, <<"-","-","-","\n">>) THEN 4
  ELSE 0

\* Offsets (1-based) in s at which a line consisting solely of three dashes starts
DashLines(s) ==
  { i \in 1..Len(s) :
      /\ i = 1 \/ s[i - 1] = "\n"
      /\ i + 2 <= Len(s)
      /\ SubSeq(s, i, i + 2) = <<"-","-","-">>
      /\ \/ i + 2 = Len(s)
         \/ s[i + 3] = "\n"
         \/ i + 4 <= Len(s) /\ s[i + 3] = "\r" /\ s[i + 4] = "\n" }

\* C9: for input that begins with an opening delimiter line, the splitter ends the
\* metadata at the first following line that is solely three dashes, returns as
\* body everything after that line with leading line breaks trimmed, and fails as
\* unterminated exactly when no such line exists; input with no opening delimiter
\* yields empty metadata and the input itself as body.
C9_SplitAtDashLine ==
  pc = "splitDone" =>
    IF OpeningLen(arg) = 0
    THEN ret.err = "" /\ ret.fm = ZeroFM /\ ret.body = arg
    ELSE LET rem == From(arg, OpeningLen(arg))
             closing == DashLines(rem)
         IN /\ (ret.err = "unterminated front matter") <=> (closing = {})
            /\ (closing # {} /\ ret.err = "") =>
                 ret.body = TrimLeft(From(rem, Min(closing) + 2), {"\r", "\n"})

----------------------------------------------------------------------------
(* Tag normalizer *)

\* default branch of the switch without its "!lastDash && b.Len() > 0" guard
slugStep_unguarded(acc, r) ==
  IF r \in AsciiLower \/ r \in AsciiDigit
  THEN [b |-> Append(acc.b, r), lastDash |-> FALSE]
  ELSE IF r = "-" \/ r = "_" \/ IsSpace(r)
  THEN IF ~acc.lastDash /\ Len(acc.b) > 0
       THEN [b |-> Append(acc.b, "-"), lastDash |-> TRUE]
       ELSE acc
  ELSE IF IsLetter(r) \/ IsDigit(r)
  THEN [b |-> Append(acc.b, ToLowerChar(r)), lastDash |-> FALSE]
  ELSE [b |-> Append(acc.b, "-"), lastDash |-> TRUE]

\* one iteration of tagSlug's loop: the switch on rune r
slugStep(acc, r) ==
  IF r \in AsciiLower \/ r \in AsciiDigit
  THEN [b |-> Append(acc.b, r), lastDash |-> FALSE]
  ELSE IF r = "-" \/ r = "_" \/ IsSpace(r)
  THEN IF ~acc.lastDash /\ Len(acc.b) > 0
       THEN [b |-> Append(acc.b, "-"), lastDash |-> TRUE]
       ELSE acc
  ELSE IF IsLetter(r) \/ IsDigit(r)
  THEN [b |-> Append(acc.b, ToLowerChar(r)), lastDash |-> FALSE]
  ELSE IF ~acc.lastDash /\ Len(acc.b) > 0
       THEN [b |-> Append(acc.b, "-"), lastDash |-> TRUE]
       ELSE acc

RECURSIVE slugLoop(_, _)
slugLoop(acc, s) ==
  IF s = << >> THEN acc ELSE slugLoop(slugStep(acc, Head(s)), Tail(s))

TagFallback == <<"t", "a", "g">>

tagSlug(name) ==
  LET n == TrimSpace(name)
  IN IF n = << >> THEN TagFallback
     ELSE LET slug == Trim(slugLoop([b |-> << >>, lastDash |-> FALSE], ToLower(n)).b, {"-"})
          IN IF slug = << >> THEN TagFallback ELSE slug

----------------------------------------------------------------------------
(* SpecNorm: tagSlug applied to a raw label, then to its own result *)

MaxLabelLen == 4

LabelChars == {"g", "G", "1", "-", "_", " ", "!", "U+00E9", "U+00C9", "U+0663"}

InitNorm ==
  /\ IdleBuild
  /\ pc = "norm"
  /\ arg \in SeqsUpTo(LabelChars, MaxLabelLen)
  /\ ret = << >>

NormOnce ==
  /\ pc = "norm"
  /\ ret' = <<tagSlug(arg)>>
  /\ pc' = "normOnce"
  /\ UNCHANGED <<arg, buildVars>>

NormTwice ==
  /\ pc = "normOnce"
  /\ ret' = Append(ret, tagSlug(ret[1]))
  /\ pc' = "normTwice"
  /\ UNCHANGED <<arg, buildVars>>

NextNorm == NormOnce \/ NormTwice

SpecNorm == InitNorm /\ [][NextNorm]_vars

\* C7: the tag normalizer is idempotent: normalizing the normalized form of any
\* raw label (empty, all punctuation, non-ASCII letters and digits included)
\* returns it unchanged.
C7_TagSlugIdempotent ==
  pc = "normTwice" => ret[2] = ret[1]

\* a label with a non-ASCII upper-case letter and punctuation, whose normal form
\* differs from the label and is not the fallback, has been normalized twice
C7_Witness ==
  /\ pc = "normTwice"
  /\ \E i \in 1..Len(arg) : arg[i] = "U+00C9"
  /\ \E i \in 1..Len(arg) : arg[i] = "!"
  /\ ret[1] # TagFallback
  /\ Len(ret[1]) = 3

----------------------------------------------------------------------------
(* Paths and slugs *)

\* filepath.Separator
Separator == "/"

\* cfg.contentDir and cfg.outputDir
contentDir == <<"c">>
outputDir == <<"o">>

MdSuffix == <<".", "m", "d">>

RECURSIVE cleanComps(_, _)
\* filepath.Clean on the components of a relative path: drops empty and "."
\* components and resolves ".." against the component before it
cleanComps(done, todo) ==
  IF todo = << >> THEN done
  ELSE LET c == Head(todo)
       IN IF c = << >> \/ c = <<".">> THEN cleanComps(done, Tail(todo))
          ELSE IF c = <<".", ".">> /\ done # << >> /\ done[Len(done)] # <<".", ".">>
               THEN cleanComps(SubSeq(done, 1, Len(done) - 1), Tail(todo))
               ELSE cleanComps(Append(done, c), Tail(todo))

\* filepath.Join(a, b) for relative paths
Join(a, b) ==
  LET raw == IF a = << >> THEN b ELSE IF b = << >> THEN a ELSE a \o <<Separator>> \o b
      comps == cleanComps(<< >>, SplitOn(raw, {Separator}))
  IN IF comps = << >> THEN <<".">> ELSE JoinWith(comps, <<Separator>>)

\* filepath.Rel(root, path) for a path the walk of root produced; the path
\* itself where Rel fails (the err branch of buildSlug)
Rel(root, path) ==
  IF HasPrefix(path, root \o <<Separator>>) THEN From(path, Len(root) + 1) ELSE path

\* filepath.Ext at the first dot of the last element instead of the last dot
Ext_firstDot(p) ==
  LET dots == { i \in 1..Len(p) : p[i] = "." /\ \A j \in i..Len(p) : p[j] # Separator }
  IN IF dots = {} THEN << >> ELSE From(p, Min(dots) - 1)

\* filepath.Ext: the suffix beginning at the final dot of the last element
Ext(p) ==
  LET dots == { i \in 1..Len(p) : p[i] = "." /\ \A j \in i..Len(p) : p[j] # Separator }
  IN IF dots = {} THEN << >> ELSE From(p, Max(dots) - 1)

\* strings.ReplaceAll(s, string(filepath.Separator), "/")
SlashSeparators(s) == [i \in 1..Len(s) |-> IF s[i] = Separator THEN "/" ELSE s[i]]

buildSlug(root, path) ==
  LET rel == Rel(root, path)
  IN SlashSeparators(ToLower(TrimSuffix(rel, Ext(rel))))

\* writePost: the file the page of a post with this slug is written to
postTarget(slug) == Join(Join(outputDir, slug), <<"i">>)

\* d.IsDir() || !strings.HasSuffix(d.Name(), ".md") is false
Eligible(path) == HasSuffix(path, MdSuffix)

\* WalkDir visits p before q: lexical order of the names, directory by directory
WalkBefore(p, q) ==
  LET a == SplitOn(p, {Separator})
      b == SplitOn(q, {Separator})
  IN \E k \in 1..Len(a) :
       /\ k <= Len(b)
       /\ \A i \in 1..(k - 1) : a[i] = b[i]
       /\ SeqLess(a[k], b[k])

----------------------------------------------------------------------------
(* SpecSlug: the slugs and page files of two files of one content tree *)

MaxStemLen == 3

StemChars == {"a", "A", "/", "."}

\* stem.md is a relative path WalkDir can produce: every directory name is
\* non-empty and neither "." nor ".."
ValidStem(s) ==
  LET comps == SplitOn(s, {Separator})
  IN \A i \in 1..(Len(comps) - 1) :
       comps[i] \notin { << >>, <<".">>, <<".", ".">> }

SlugPaths ==
  { contentDir \o <<Separator>> \o s \o MdSuffix :
      s \in { t \in SeqsUpTo(StemChars, MaxStemLen) : ValidStem(t) } }

InitSlug ==
  /\ IdleBuild
  /\ pc = "slug"
  /\ arg \in { pq \in SlugPaths \X SlugPaths : WalkBefore(pq[1], pq[2]) }
  /\ ret = << >>

\* the slug and the page file of the file the walk visits next
SlugNext ==
  /\ pc = "slug"
  /\ Len(ret) < 2
  /\ LET path == arg[Len(ret) + 1]
         slug == buildSlug(contentDir, path)
     IN ret' = Append(ret, [Slug |-> slug, Target |-> postTarget(slug)])
  /\ pc' = IF Len(ret) = 1 THEN "slugDone" ELSE "slug"
  /\ UNCHANGED <<arg, buildVars>>

NextSlug == SlugNext

SpecSlug == InitSlug /\ [][NextSlug]_vars

\* strings.EqualFold on the model's characters
EqualFold(a, b) ==
  /\ Len(a) = Len(b)
  /\ \A i \in 1..Len(a) : ToLowerChar(a[i]) = ToLowerChar(b[i])

\* C5 as stated: the slugs of two distinct eligible source paths differ.
C5_SlugsDistinct ==
  pc = "slugDone" => ret[1].Slug # ret[2].Slug

\* C5 amended: two distinct eligible source paths have the same slug exactly
\* when the paths differ only in letter case, and then both pages are the same
\* file.
C5_SlugsDistinctUpToCase ==
  pc = "slugDone" =>
    /\ (ret[1].Slug = ret[2].Slug) <=> EqualFold(arg[1], arg[2])
    /\ ret[1].Slug = ret[2].Slug => ret[1].Target = ret[2].Target

\* two files in different directories whose paths differ only in letter case
\* have been given the same slug
C5_Witness ==
  /\ pc = "slugDone"
  /\ arg[1] # arg[2]
  /\ \E i \in 1..Len(arg[1]) : arg[1][i] = Separator /\ i > Len(contentDir) + 1
  /\ ret[1].Slug = ret[2].Slug

----------------------------------------------------------------------------
(* Sorting *)

\* every arrangement of the elements of s
Arrangements(s) ==
  { [i \in 1..Len(s) |-> s[f[i]]] : f \in Permutations(1..Len(s)) }

\* posts[i].Date.After(posts[j].Date)
DateAfter(p, q) == p.Date > q.Date

\* strings.ToLower(result[i].Name) < strings.ToLower(result[j].Name)
NameLess(g, h) == SeqLess(ToLower(g.Name), ToLower(h.Name))

\* sort.Slice(posts, ...Date.After...): the sort is not stable, so any
\* arrangement in which no post is dated after one before it can be the result
sortByDate(s) ==
  { t \in Arrangements(s) : \A i, j \in 1..Len(t) : i < j => ~DateAfter(t[j], t[i]) }

\* sort.Slice(result, ...Name...): any arrangement in which no group's name is
\* less than the name of one before it
sortByName(s) ==
  { t \in Arrangements(s) : \A i, j \in 1..Len(t) : i < j => ~NameLess(t[j], t[i]) }

----------------------------------------------------------------------------
(* Tag groups *)

\* the loop body without the seen check
tagStep_noSeen(acc, p, raw) ==
  LET name == TrimSpace(raw)
      slug == tagSlug(name)
      at == { i \in 1..Len(acc.groups) : acc.groups[i].Slug = slug }
  IN IF name = << >> THEN acc
     ELSE [seen |-> acc.seen,
           groups |->
             IF at = {}
             THEN Append(acc.groups, [Name |-> name, Slug |-> slug, Posts |-> <<p>>])
             ELSE [acc.groups EXCEPT ![Min(at)].Posts = Append(@, p)]]

\* buildTagGroups, the body of the inner loop: one raw tag of post p.
\* acc.groups holds the groups of groupMap in the order they were created.
tagStep(acc, p, raw) ==
  LET name == TrimSpace(raw)
      slug == tagSlug(name)
      key == slug \o <<"@">> \o p.Slug
      at == { i \in 1..Len(acc.groups) : acc.groups[i].Slug = slug }
  IN IF name = << >> THEN acc
     ELSE IF key \in acc.seen THEN acc
     ELSE [seen |-> acc.seen \cup {key},
           groups |->
             IF at = {}
             THEN Append(acc.groups, [Name |-> name, Slug |-> slug, Posts |-> <<p>>])
             ELSE [acc.groups EXCEPT ![Min(at)].Posts = Append(@, p)]]

RECURSIVE tagLoop(_, _, _)
tagLoop(acc, p, tags) ==
  IF tags = << >> THEN acc ELSE tagLoop(tagStep(acc, p, Head(tags)), p, Tail(tags))

RECURSIVE postLoop(_, _)
postLoop(acc, ps) ==
  IF ps = << >> THEN acc ELSE postLoop(tagLoop(acc, Head(ps), Head(ps).Tags), Tail(ps))

\* buildTagGroups(posts): the results it can return. Each group's posts are
\* sorted by date, the groups by lower-cased name, both with sort.Slice.
buildTagGroups(ps) ==
  LET base == postLoop([seen |-> {}, groups |-> << >>], ps).groups
      n == Len(base)
      orders == { f \in [1..n -> UNION { sortByDate(base[i].Posts) : i \in 1..n }] :
                    \A i \in 1..n : f[i] \in sortByDate(base[i].Posts) }
  IN IF n = 0 THEN { << >> }
     ELSE UNION { sortByName([i \in 1..n |-> [base[i] EXCEPT !.Posts = f[i]]]) :
                    f \in orders }

----------------------------------------------------------------------------
(* Posts *)

\* renderMarkdown: the HTML goldmark makes of a body
Html(body) == [html |-> body]

\* strings.Title on one word
TitleWord(w) == IF w = << >> THEN w ELSE <<ToUpperChar(w[1])>> \o Tail(w)

\* filepath.Base of a slug
Base(slug) ==
  LET comps == cleanComps(<< >>, SplitOn(slug, {Separator}))
  IN IF comps = << >> THEN <<".">> ELSE comps[Len(comps)]

RECURSIVE titleWords(_)
titleWords(ws) ==
  IF ws = << >> THEN << >> ELSE <<TitleWord(Head(ws))>> \o titleWords(Tail(ws))

pickTitle(fm, slug) ==
  IF fm.Title # << >> THEN fm.Title
  ELSE JoinWith(titleWords(SplitOn(Base(slug), {"-"})), <<" ">>)

\* the post loadPosts builds of a file
MakePost(path, fm, body) ==
  LET slug == buildSlug(contentDir, path)
  IN [Slug |-> slug, Title |-> pickTitle(fm, slug), Date |-> fm.Date, Tags |-> fm.Tags,
      Summary |-> fm.Summary, Description |-> fm.Description, Draft |-> fm.Draft,
      ContentHTML |-> Html(body), ContentRaw |-> body, SourcePath |-> path]

----------------------------------------------------------------------------
(* SpecTags: buildTagGroups applied to the sorted posts of a build *)

MaxTags == 2

TagLabels == { <<" ">>, <<"G">>, <<"g">>, <<"!">> }

TagPath(n) == contentDir \o <<Separator>> \o n \o MdSuffix

TagPaths == { TagPath(<<"A">>), TagPath(<<"a">>), TagPath(<<"b">>) }

\* two posts in sorted order: with one slug, and with two
TagPathPairs ==
  { <<TagPath(<<"A">>), TagPath(<<"a">>)>>, <<TagPath(<<"b">>), TagPath(<<"a">>)>> }

TagPost(path, date, tags) ==
  MakePost(path, [ZeroFM EXCEPT !.Date = date, !.Tags = tags], <<"x">>)

TagInputs ==
  LET lists == SeqsUpTo(TagLabels, MaxTags)
  IN { <<TagPost(p, 1, t)>> : p \in TagPaths, t \in lists }
     \cup { <<TagPost(pq[1], 2, t), TagPost(pq[2], d, u)>> :
              pq \in TagPathPairs, d \in {1, 2}, t \in lists, u \in lists }

InitTags ==
  /\ IdleBuild
  /\ pc = "tags"
  /\ arg \in TagInputs
  /\ ret = << >>

TagsCall ==
  /\ pc = "tags"
  /\ ret' \in buildTagGroups(arg)
  /\ pc' = "tagsDone"
  /\ UNCHANGED <<arg, buildVars>>

NextTags == TagsCall

SpecTags == InitTags /\ [][NextTags]_vars

\* every identifier a label of the model can normalize to
TagIds == { tagSlug(l) : l \in TagLabels }

\* how often groups list a post p satisfying Is(p) under identifier id
Listed(groups, id, Is(_)) ==
  Cardinality(UNION { { <<i, k>> : k \in { k \in 1..Len(groups[i].Posts) :
                                            Is(groups[i].Posts[k]) } } :
                      i \in { i \in 1..Len(groups) : groups[i].Slug = id } })

\* C6 as stated: there is one group per identifier, and every document is listed
\* exactly once under an identifier if one of its raw tags normalizes to it, and
\* not at all otherwise.
C6_OncePerDocument ==
  pc = "tagsDone" =>
    /\ \A i, j \in 1..Len(ret) : ret[i].Slug = ret[j].Slug => i = j
    /\ \A n \in 1..Len(arg) : \A id \in TagIds :
         LET IsDoc(p) == p.SourcePath = arg[n].SourcePath
             has == \E k \in 1..Len(arg[n].Tags) : tagSlug(arg[n].Tags[k]) = id
         IN Listed(ret, id, IsDoc) = IF has THEN 1 ELSE 0

\* C6 amended: there is one group per identifier, and for every document slug
\* exactly one document with that slug is listed under an identifier if a
\* non-blank raw tag of a document with that slug normalizes to it, and none
\* otherwise.
C6_OncePerSlug ==
  pc = "tagsDone" =>
    /\ \A i, j \in 1..Len(ret) : ret[i].Slug = ret[j].Slug => i = j
    /\ \A n \in 1..Len(arg) : \A id \in TagIds :
         LET IsSlug(p) == p.Slug = arg[n].Slug
             has == \E m \in 1..Len(arg) :
                      /\ arg[m].Slug = arg[n].Slug
                      /\ \E k \in 1..Len(arg[m].Tags) :
                           /\ TrimSpace(arg[m].Tags[k]) # << >>
                           /\ tagSlug(arg[m].Tags[k]) = id
         IN Listed(ret, id, IsSlug) = IF has THEN 1 ELSE 0

\* a document whose raw tags spell one identifier in two ways is listed once,
\* next to a second document with another slug in the same group
C6_Witness ==
  /\ pc = "tagsDone"
  /\ Len(arg) = 2
  /\ arg[1].Slug # arg[2].Slug
  /\ arg[1].Tags = << <<"G">>, <<"g">> >>
  /\ \E i \in 1..Len(ret) : ret[i].Slug = <<"g">> /\ Len(ret[i].Posts) = 2

----------------------------------------------------------------------------
(* Feed *)

Ellipsis == "U+2026"

\* the limit renderRSS passes to plainExcerpt
ExcerptLimit == 200

\* const maxItems
maxItems == 50

\* cfg.baseURL
baseURL == <<"x">>

\* strings.ReplaceAll(text, "\r\n", "\n"): every "\r" right before a "\n" is dropped
ReplaceCRLF(s) ==
  LET cr == { j \in 1..(Len(s) - 1) : s[j] = "\r" /\ s[j + 1] = "\n" }
      Pos(i) == i - Cardinality({ j \in cr : j < i })
  IN [k \in 1..(Len(s) - Cardinality(cr)) |->
        s[CHOOSE i \in k..(k + Cardinality(cr)) : i \notin cr /\ Pos(i) = k]]

\* strings.ReplaceAll(text, "\n", " ")
ReplaceLF(s) == [i \in 1..Len(s) |-> IF s[i] = "\n" THEN " " ELSE s[i]]

\* strings.Fields: the maximal runs of non-space characters
Fields(s) ==
  LET starts == { i \in 1..Len(s) : ~IsSpace(s[i]) /\ (i = 1 \/ IsSpace(s[i - 1])) }
      EndOf(i) == Min({ j \in i..Len(s) : j = Len(s) \/ IsSpace(s[j + 1]) })
      Nth(n) == CHOOSE i \in starts : Cardinality({ j \in starts : j < i }) = n - 1
  IN [n \in 1..Cardinality(starts) |-> SubSeq(s, Nth(n), EndOf(Nth(n)))]

plainExcerpt(src, limit) ==
  LET trimmed == TrimSpace(src)
      text == JoinWith(Fields(ReplaceLF(ReplaceCRLF(trimmed))), <<" ">>)
  IN IF trimmed = << >> THEN << >>
     ELSE IF limit <= 0 THEN text
     ELSE IF Len(text) > limit
          THEN Append(TrimSpace(SubSeq(text, 1, limit)), Ellipsis)
          ELSE text

firstNonEmpty(values) ==
  LET hits == { i \in 1..Len(values) : TrimSpace(values[i]) # << >> }
  IN IF hits = {} THEN << >> ELSE values[Min(hits)]

\* the description with the description tried before the summary
feedDescription_descFirst(p) ==
  firstNonEmpty(<<p.Description, p.Summary, plainExcerpt(p.ContentRaw, ExcerptLimit)>>)

\* renderRSS: the description of the item of post p
feedDescription(p) ==
  firstNonEmpty(<<p.Summary, p.Description, plainExcerpt(p.ContentRaw, ExcerptLimit)>>)

\* formatRFC1123
formatRFC1123(date) == [rfc1123z |-> date]

\* renderRSS: the item of post p
rssItem(p) ==
  LET link == baseURL \o <<"/">> \o p.Slug \o <<"/">>
  IN [Title |-> p.Title, Link |-> link, GUID |-> [IsPermaLink |-> "true", Value |-> link],
      PubDate |-> formatRFC1123(p.Date), Description |-> feedDescription(p)]

\* renderRSS(cfg, posts): the feed file after the call; prev is the file before
renderRSS(prev, ps) ==
  IF Len(ps) = 0 THEN prev
  ELSE << [i \in 1..(IF Len(ps) < maxItems THEN Len(ps) ELSE maxItems) |-> rssItem(ps[i])] >>

----------------------------------------------------------------------------
(* SpecFeed: renderRSS applied to one post *)

MaxGap == 1

Filler(n) == [i \in 1..n |-> "x"]

FeedGaps == SeqsUpTo({" ", "\n"}, MaxGap)

FeedEnds == { << >>, <<"\n">> }

\* bodies around the limit: white space at the ends, and a run of white space
\* of at most MaxGap characters near the place of the cut
FeedBodies ==
  { Cat4(g1 \o Filler(a), g2, Filler(b), g3) :
      g1 \in FeedEnds, g2 \in FeedGaps, g3 \in FeedEnds,
      a \in {0, ExcerptLimit - 1, ExcerptLimit}, b \in {0, 2} }

FeedSummaries == { << >>, <<" ">>, <<" ", "s">> }
FeedDescriptions == { << >>, <<" ">>, <<"d">> }

FeedPost(sum, desc, body) ==
  MakePost(TagPath(<<"a">>),
           [ZeroFM EXCEPT !.Date = 1, !.Summary = sum, !.Description = desc], body)

InitFeed ==
  /\ IdleBuild
  /\ pc = "feed"
  /\ arg \in { <<FeedPost(su, de, bo)>> :
                 su \in FeedSummaries, de \in FeedDescriptions, bo \in FeedBodies }
  /\ ret = << >>

FeedCall ==
  /\ pc = "feed"
  /\ ret' = renderRSS(<< >>, arg)
  /\ pc' = "feedDone"
  /\ UNCHANGED <<arg, buildVars>>

NextFeed == FeedCall

SpecFeed == InitFeed /\ [][NextFeed]_vars

NonBlank(s) == \E i \in 1..Len(s) : ~IsSpace(s[i])

\* the non-space characters of s, in order
NonSpace(s) == SelectSeq(s, LAMBDA c : ~IsSpace(c))

\* length of s once every run of white space is one space and the ends are trimmed
CollapsedLen(s) ==
  LET words == Cardinality({ i \in 1..Len(s) : ~IsSpace(s[i]) /\ (i = 1 \/ IsSpace(s[i - 1])) })
  IN IF words = 0 THEN 0 ELSE Len(NonSpace(s)) + words - 1

\* d is the plain-text excerpt of body: white space collapsed to single spaces,
\* at most ExcerptLimit characters of the body, and the ellipsis marker at the
\* end exactly when the body was cut
IsExcerpt(d, body) ==
  LET cut == d # << >> /\ d[Len(d)] = Ellipsis
      core == IF cut THEN SubSeq(d, 1, Len(d) - 1) ELSE d
  IN /\ Len(core) <= ExcerptLimit
     /\ \A i \in 1..Len(core) : IsSpace(core[i]) =>
          core[i] = " " /\ 1 < i /\ i < Len(core) /\ ~IsSpace(core[i + 1])
     /\ HasPrefix(NonSpace(body), NonSpace(core))
     /\ cut <=> CollapsedLen(body) > ExcerptLimit
     /\ ~cut => NonSpace(core) = NonSpace(body)

\* C8 as stated: a non-empty summary is the description; otherwise a non-empty
\* description is; only when both are empty is it the excerpt of the body.
C8_DescriptionOrder ==
  pc = "feedDone" =>
    /\ Len(ret) = 1 /\ Len(ret[1]) = Len(arg)
    /\ \A i \in 1..Len(arg) :
         LET d == ret[1][i].Description
         IN IF arg[i].Summary # << >> THEN d = arg[i].Summary
            ELSE IF arg[i].Description # << >> THEN d = arg[i].Description
            ELSE IsExcerpt(d, arg[i].ContentRaw)

\* C8 amended: a summary with a non-space character is the description;
\* otherwise a description with a non-space character is; only when both are
\* blank (empty or white space only) is it the excerpt of the body.
C8_DescriptionOrderNonBlank ==
  pc = "feedDone" =>
    /\ Len(ret) = 1 /\ Len(ret[1]) = Len(arg)
    /\ \A i \in 1..Len(arg) :
         LET d == ret[1][i].Description
         IN IF NonBlank(arg[i].Summary) THEN d = arg[i].Summary
            ELSE IF NonBlank(arg[i].Description) THEN d = arg[i].Description
            ELSE IsExcerpt(d, arg[i].ContentRaw)

\* a post without summary and description, whose body is longer than the limit,
\* has the cut excerpt as its description
C8_Witness ==
  /\ pc = "feedDone"
  /\ arg[1].Summary = << >>
  /\ arg[1].Description = << >>
  /\ Len(arg[1].ContentRaw) > ExcerptLimit
  /\ ret[1][1].Description[Len(ret[1][1].Description)] = Ellipsis
  /\ Len(ret[1][1].Description) = ExcerptLimit

----------------------------------------------------------------------------
(* Spec: one run of the generator over a content tree *)

MaxFiles == 3

\* the names in the content directory, in byte order; "x" has no .md suffix
BuildPaths == { TagPath(<<"A">>), TagPath(<<"a">>), TagPath(<<"b">>),
                contentDir \o <<Separator>> \o <<"x">> }

DocOpen == <<"-", "-", "-", "\n">>
DocClose == <<"\n", "-", "-", "-", "\n">>
Doc(meta, body) == Cat4(DocOpen, meta, DocClose, body)

\* the title only the drafts of the model carry
DraftTitle == <<"T">>

BuildDocs ==
  { Doc(<<"date:1", "\n", "tags:Go,go", "\n", "summary:s">>, <<"x">>),
    Doc(<<"date:2", "\n", "tags:b">>, <<"x", " ", "x">>),
    Doc(<<"date:1", "\n", "draft:true", "\n", "title:T">>, <<"x">>),
    Doc(<<"description:d">>, <<"x">>),
    <<"x">>,
    DocOpen \o <<"date:1", "\n", "x">>,
    Doc(<<"date:1", "\n", "x">>, <<"x">>) }

\* the elements of a set of paths in the order WalkDir visits them
InWalkOrder(S) ==
  CHOOSE f \in [1..Cardinality(S) -> S] :
    \A i, j \in 1..Cardinality(S) : i < j => WalkBefore(f[i], f[j])

TreesOver(order) ==
  { [i \in 1..Len(order) |-> [Path |-> order[i], Data |-> d[i]]] :
      d \in [1..Len(order) -> BuildDocs] }

BuildTrees ==
  UNION { TreesOver(InWalkOrder(S)) :
            S \in { T \in SUBSET BuildPaths : Cardinality(T) <= MaxFiles } }

Init ==
  /\ pc = "walk"
  /\ files \in BuildTrees
  /\ idx = 1
  /\ cancelled = FALSE
  /\ posts = << >>
  /\ reads = {}
  /\ rendered = {}
  /\ pages = {}
  /\ indexPage = << >>
  /\ tagPages = << >>
  /\ feed = << >>
  /\ err = ""
  /\ arg = << >>
  /\ ret = << >>

\* the select on ctx.Done() never taking the Done branch
ctxDone_never == FALSE

\* select { case <-ctx.Done(): ... default: }
ctxDone == cancelled

\* a draft is treated like any other document
SkipDraft_never(fm) == FALSE

\* if fm.Draft { return nil }
SkipDraft(fm) == fm.Draft

\* writePost: the output tree after the page of post is written
writePost(tree, post) ==
  { pg \in tree : pg.Target # postTarget(post.Slug) }
    \cup { [Target |-> postTarget(post.Slug), Post |-> post,
            Description |-> firstNonEmpty(<<post.Description, post.Summary>>)] }

\* the walk callback up to the select: a directory entry that is no .md file is
\* passed over; a closed ctx ends the walk with ctx.Err()
WalkVisit ==
  /\ pc = "walk"
  /\ idx <= Len(files)
  /\ IF ~Eligible(files[idx].Path)
     THEN idx' = idx + 1 /\ UNCHANGED <<pc, err>>
     ELSE IF ctxDone
          THEN pc' = "failed" /\ err' = "context canceled" /\ UNCHANGED idx
          ELSE pc' = "file" /\ UNCHANGED <<idx, err>>
  /\ UNCHANGED <<files, cancelled, posts, reads, rendered, pages, indexPage,
                 tagPages, feed, arg, ret>>

\* the walk callback from os.ReadFile on: read, split, draft check, render,
\* write the page, append the post
WalkFile ==
  /\ pc = "file"
  /\ \E readOK \in BOOLEAN, renderOK \in BOOLEAN :
       LET path == files[idx].Path
           sp == splitFrontMatter(files[idx].Data)
           post == MakePost(path, sp.fm, sp.body)
       IN /\ reads' = reads \cup {path}
          /\ IF ~readOK
             THEN /\ pc' = "failed" /\ err' = "read"
                  /\ UNCHANGED <<idx, posts, rendered, pages>>
             ELSE IF sp.err # ""
             THEN /\ pc' = "failed" /\ err' = "front matter"
                  /\ UNCHANGED <<idx, posts, rendered, pages>>
             ELSE IF SkipDraft(sp.fm)
             THEN /\ pc' = "walk" /\ idx' = idx + 1
                  /\ UNCHANGED <<err, posts, rendered, pages>>
             ELSE IF ~renderOK
             THEN /\ pc' = "failed" /\ err' = "markdown"
                  /\ rendered' = rendered \cup {path}
                  /\ UNCHANGED <<idx, posts, pages>>
             ELSE /\ pc' = "walk" /\ idx' = idx + 1
                  /\ rendered' = rendered \cup {path}
                  /\ pages' = writePost(pages, post)
                  /\ posts' = Append(posts, post)
                  /\ UNCHANGED err
  /\ UNCHANGED <<files, cancelled, indexPage, tagPages, feed, arg, ret>>

\* ctx is cancelled while the walk is running
Cancel ==
  /\ pc \in {"walk", "file"}
  /\ ~cancelled
  /\ cancelled' = TRUE
  /\ UNCHANGED <<pc, files, idx, posts, reads, rendered, pages, indexPage, tagPages,
                 feed, err, arg, ret>>

\* run after loadPosts returned without error: nothing more without posts;
\* otherwise sort, index page, tag pages, feed (copyAssets touches none of these)
RunAggregate ==
  /\ pc = "walk"
  /\ idx > Len(files)
  /\ pc' = "done"
  /\ IF Len(posts) = 0
     THEN UNCHANGED <<posts, indexPage, tagPages, feed>>
     ELSE \E sorted \in sortByDate(posts) :
            \E groups \in buildTagGroups(sorted) :
              /\ posts' = sorted
              /\ indexPage' = <<sorted>>
              /\ tagPages' = <<groups>>
              /\ feed' = renderRSS(feed, sorted)
  /\ UNCHANGED <<files, idx, cancelled, reads, rendered, pages, err, arg, ret>>

Next == WalkVisit \/ WalkFile \/ Cancel \/ RunAggregate

Spec == Init /\ [][Next]_vars

----------------------------------------------------------------------------
(* Properties of the run *)

\* the metadata of the file declares draft: true
DeclaresDraft(data) == \E i \in 1..Len(data) : data[i] = "draft:true"

SourcesOf(ps) == { ps[i].SourcePath : i \in 1..Len(ps) }

PageSources(tree) == { pg.Post.SourcePath : pg \in tree }

\* C1: a file whose metadata declares draft: true is never rendered, never written
\* as a page, and never appears in the posts, the index, a tag group or the feed.
C1_DraftNeverPublished ==
  \A k \in 1..Len(files) :
    DeclaresDraft(files[k].Data) =>
      /\ files[k].Path \notin rendered
      /\ files[k].Path \notin PageSources(pages)
      /\ files[k].Path \notin SourcesOf(posts)
      /\ \A n \in 1..Len(indexPage) : files[k].Path \notin SourcesOf(indexPage[n])
      /\ \A n \in 1..Len(tagPages) : \A g \in 1..Len(tagPages[n]) :
           files[k].Path \notin SourcesOf(tagPages[n][g].Posts)
      /\ \A n \in 1..Len(feed) : \A i \in 1..Len(feed[n]) :
           feed[n][i].Title # DraftTitle

\* a build with a valid draft and a published document has finished: the draft
\* was read, the index, the tag pages and the feed were written
C1_Witness ==
  /\ pc = "done"
  /\ \E k \in 1..Len(files) :
       /\ DeclaresDraft(files[k].Data)
       /\ splitFrontMatter(files[k].Data).err = ""
       /\ files[k].Path \in reads
  /\ Len(feed) = 1
  /\ Len(indexPage) = 1
  /\ Len(tagPages) = 1 /\ Len(tagPages[1]) > 0

\* C2: when metadata splitting or rendering fails for a file, the run has written
\* no page, no index, no tag page and no feed.
C2_NoPartialOutput ==
  (pc = "failed" /\ err \in {"front matter", "markdown"}) =>
    /\ pages = {}
    /\ indexPage = << >>
    /\ tagPages = << >>
    /\ feed = << >>

\* C3: every collected document has a non-zero publish date.
C3_DateRequired ==
  \A i \in 1..Len(posts) : posts[i].Date # ZeroDate

\* C4: the index order is a stable descending sort by date: a permutation of
\* the collected documents, dates non-increasing, and documents with the same
\* date in the order the walk discovered them (stated for builds in which every
\* collected document has a publish date).
C4_StableDescending ==
  (pc = "done" /\ Len(indexPage) = 1 /\ C3_DateRequired) =>
    LET s == indexPage[1]
    IN /\ SourcesOf(s) = rendered
       /\ Len(s) = Cardinality(rendered)
       /\ \A i, j \in 1..Len(s) : i < j =>
            /\ s[i].Date >= s[j].Date
            /\ s[i].Date = s[j].Date => WalkBefore(s[i].SourcePath, s[j].SourcePath)

\* the file whose callback is past the check of ctx
InFlight == IF pc = "file" THEN {files[idx].Path} ELSE {}

\* after cancellation, no callback passes the check of ctx any more, and a step
\* reads, renders, writes and collects no file but the one in flight
OnlyInFlight ==
  /\ pc = "walk" => pc' # "file"
  /\ reads' \ reads \subseteq InFlight
  /\ rendered' \ rendered \subseteq InFlight
  /\ PageSources(pages') \ PageSources(pages) \subseteq InFlight
  /\ SourcesOf(posts') \ SourcesOf(posts) \subseteq InFlight

====
